---- MODULE Spec2Model ----
(***************************************************************************)
(* Model of the `ars` crate: the copyable index range `Range` of           *)
(* src/range.rs with its slice indexing, and the slice formatter           *)
(* `FmtSlice` of src/fmt/slice.rs.                                         *)
(*                                                                         *)
(* A caller constructs a Range and applies calls to the value it holds: a  *)
(* transforming call hands it the new value, a panic ends it.  `last` is   *)
(* the most recent call.  A second process renders one FmtSlice into a     *)
(* sink, one write at a time.                                              *)
(***************************************************************************)
EXTENDS Integers, Sequences, FiniteSets

(* ------------------------------ bounds --------------------------------- *)

\* width of usize in the model, in bits
UsizeBits == 2
\* longest slice that is indexed or rendered
MaxLen == 3

UsizeMax == 2^UsizeBits - 1
Usize == 0..UsizeMax

RECURSIVE SeqsUpTo(_, _)
SeqsUpTo(S, n) ==
    IF n = 0 THEN {<<>>}
    ELSE LET shorter == SeqsUpTo(S, n - 1)
         IN  shorter \cup {Append(q, x) : q \in {p \in shorter : Len(p) = n - 1}, x \in S}

\* the indexed slices: one of each length, its elements pairwise different;
\* a slice is never longer than usize::MAX
Slices == {[k \in 1..n |-> 10 * k] : n \in 0..(IF MaxLen < UsizeMax THEN MaxLen ELSE UsizeMax)}

(* --------------------- usize and core::cmp helpers --------------------- *)

saturating_add(a, b) == IF a + b > UsizeMax THEN UsizeMax ELSE a + b

saturating_sub(a, b) == IF b > a THEN 0 ELSE a - b

wrapping_add(a, b) == (a + b) % (UsizeMax + 1)

\* core::cmp::min(v1, v2): v2 when v2 < v1, else v1
min(v1, v2) == IF v2 < v1 THEN v2 ELSE v1

\* core::cmp::max(v1, v2): v1 when v2 < v1, else v2
max(v1, v2) == IF v2 < v1 THEN v1 ELSE v2

(* ------------------------------ results -------------------------------- *)

\* a call that returned v
Ret(v) == [panicked |-> FALSE, val |-> v]
\* a call that panicked
Panic == [panicked |-> TRUE, val |-> "panic"]

\* Option<Range>
Some(r) == <<"Some", r>>
None == <<"None">>

(* ------------------------------- Range --------------------------------- *)

\* Range(pub usize, pub usize): the tuple <<self.0, self.1>>
Range == Usize \X Usize

new(s, e) == <<s, e>>

start(self) == self[1]

end(self) == self[2]

\* len with a wrapping subtraction
len_wrapping(self) == (self[2] - self[1]) % (UsizeMax + 1)

len(self) == saturating_sub(self[2], self[1])

is_empty(self) == self[1] >= self[2]

contains(self, i) == i >= self[1] /\ i < self[2]

\* clamp_to with the two bounds swapped in the result
clamp_to_swapped(self, n) ==
    LET s == min(self[1], n)
        e == min(self[2], n)
    IN  <<e, s>>

clamp_to(self, n) ==
    LET s == min(self[1], n)
        e == min(self[2], n)
    IN  <<s, e>>

\* intersect that starts at the smaller of the two starts
intersect_min_start(self, other) ==
    LET s == min(self[1], other[1])
        e == min(self[2], other[2])
    IN  IF s < e THEN Some(<<s, e>>) ELSE None

\* intersect that takes touching ranges for overlapping ones
intersect_touching(self, other) ==
    LET s == max(self[1], other[1])
        e == min(self[2], other[2])
    IN  IF s <= e THEN Some(<<s, e>>) ELSE None

intersect(self, other) ==
    LET s == max(self[1], other[1])
        e == min(self[2], other[2])
    IN  IF s < e THEN Some(<<s, e>>) ELSE None

\* self.0 + delta and self.1 + delta are unchecked additions: on overflow a
\* build with overflow checks panics and a build without them wraps.
overflows(self, delta) == self[1] + delta > UsizeMax \/ self[2] + delta > UsizeMax

\* offset that moves the start only
offset_start_only(self, delta) ==
    IF overflows(self, delta)
    THEN {Panic, Ret(<<wrapping_add(self[1], delta), self[2]>>)}
    ELSE {Ret(<<self[1] + delta, self[2]>>)}

offset(self, delta) ==
    IF overflows(self, delta)
    THEN {Panic, Ret(<<wrapping_add(self[1], delta), wrapping_add(self[2], delta)>>)}
    ELSE {Ret(<<self[1] + delta, self[2] + delta>>)}

\* shrink that empties the range at the original start
shrink_at_original_start(self, start_shrink, end_shrink) ==
    LET s == saturating_add(self[1], start_shrink)
        e == saturating_sub(self[2], end_shrink)
    IN  IF s >= e THEN <<self[1], self[1]>> ELSE <<s, e>>

\* shrink with a wrapping subtraction of end_shrink
shrink_wrapping(self, start_shrink, end_shrink) ==
    LET s == saturating_add(self[1], start_shrink)
        e == (self[2] - end_shrink) % (UsizeMax + 1)
    IN  IF s >= e THEN <<s, s>> ELSE <<s, e>>

shrink(self, start_shrink, end_shrink) ==
    LET s == saturating_add(self[1], start_shrink)
        e == saturating_sub(self[2], end_shrink)
    IN  IF s >= e THEN <<s, s>> ELSE <<s, e>>

\* an index that takes an inverted range for an empty one
index_inverted_as_empty(slice, idx) ==
    IF idx[2] > Len(slice)
    THEN Panic
    ELSE Ret(SubSeq(slice, idx[1] + 1, idx[2]))

\* &slice[index.0..index.1]: the bounds-checked sub-slice of core
index(slice, idx) ==
    IF idx[1] > idx[2] \/ idx[2] > Len(slice)
    THEN Panic
    ELSE Ret(SubSeq(slice, idx[1] + 1, idx[2]))

\* core::ops::Range<usize> is the record [start, end]; (usize, usize) a pair
CoreRange == [start : Usize, end : Usize]

from_core(r) == <<r.start, r.end>>

into_core(r) == [start |-> r[1], end |-> r[2]]

from_tuple(t) == <<t[1], t[2]>>

into_tuple(r) == <<r[1], r[2]>>

(* ------------------------- the caller of Range ------------------------- *)

VARIABLES
    pc,      \* "idle", "holding" (the caller holds a Range) or "panicked"
    cur,     \* the Range the caller holds
    last,    \* the most recent call: [op, self, args, res]
    fpc,     \* position of FmtSlice::fmt: "idle", "open", "first", "rest", "close", "done"
    fslice,  \* the slice the FmtSlice borrows
    fcap,    \* the number of writes the sink accepts
    fi,      \* position of the slice iterator (the next element, from 1)
    fout,    \* the pieces written to the sink so far
    fres     \* the value fmt returned: "none" while running, then "Ok" or "Err"

rangeVars == <<pc, cur, last>>
fmtVars == <<fpc, fslice, fcap, fi, fout, fres>>
vars == <<pc, cur, last, fpc, fslice, fcap, fi, fout, fres>>

NoCall == [op |-> "none", self |-> <<0, 0>>, args |-> <<>>, res |-> Ret(0)]

Init ==
    /\ pc = "idle"
    /\ cur = <<0, 0>>
    /\ last = NoCall
    /\ fpc = "idle"
    /\ fslice = <<>>
    /\ fcap = 0
    /\ fi = 1
    /\ fout = <<>>
    /\ fres = "none"

\* the record of the call `op(cur, args)` that returned or panicked with res
CallOf(op, args, res) == [op |-> op, self |-> cur, args |-> args, res |-> res]

\* where the caller is after a call: a panic ends it
After(res) == IF res.panicked THEN "panicked" ELSE "holding"

New ==
    \E s \in Usize, e \in Usize :
        /\ pc = "idle"
        /\ pc' = "holding"
        /\ cur' = new(s, e)
        /\ last' = CallOf("new", <<s, e>>, Ret(new(s, e)))
        /\ UNCHANGED fmtVars

\* impl From<core::ops::Range<usize>> for Range
FromCore ==
    \E r \in CoreRange :
        /\ pc = "idle"
        /\ pc' = "holding"
        /\ cur' = from_core(r)
        /\ last' = CallOf("from_core", <<r>>, Ret(from_core(r)))
        /\ UNCHANGED fmtVars

\* impl From<(usize, usize)> for Range
FromTuple ==
    \E t \in Usize \X Usize :
        /\ pc = "idle"
        /\ pc' = "holding"
        /\ cur' = from_tuple(t)
        /\ last' = CallOf("from_tuple", <<t>>, Ret(from_tuple(t)))
        /\ UNCHANGED fmtVars

Start ==
    /\ pc = "holding"
    /\ last' = CallOf("start", <<>>, Ret(start(cur)))
    /\ UNCHANGED <<pc, cur>>
    /\ UNCHANGED fmtVars

End ==
    /\ pc = "holding"
    /\ last' = CallOf("end", <<>>, Ret(end(cur)))
    /\ UNCHANGED <<pc, cur>>
    /\ UNCHANGED fmtVars

Len_ ==
    /\ pc = "holding"
    /\ last' = CallOf("len", <<>>, Ret(len(cur)))
    /\ UNCHANGED <<pc, cur>>
    /\ UNCHANGED fmtVars

IsEmpty ==
    /\ pc = "holding"
    /\ last' = CallOf("is_empty", <<>>, Ret(is_empty(cur)))
    /\ UNCHANGED <<pc, cur>>
    /\ UNCHANGED fmtVars

Contains ==
    \E i \in Usize :
        /\ pc = "holding"
        /\ last' = CallOf("contains", <<i>>, Ret(contains(cur, i)))
        /\ UNCHANGED <<pc, cur>>
        /\ UNCHANGED fmtVars

\* the caller goes on with the clamped Range
ClampTo ==
    \E n \in Usize :
        /\ pc = "holding"
        /\ last' = CallOf("clamp_to", <<n>>, Ret(clamp_to(cur, n)))
        /\ cur' = clamp_to(cur, n)
        /\ UNCHANGED pc
        /\ UNCHANGED fmtVars

\* the caller goes on with the intersection when there is one
Intersect ==
    \E other \in Range :
        /\ pc = "holding"
        /\ last' = CallOf("intersect", <<other>>, Ret(intersect(cur, other)))
        /\ cur' = IF intersect(cur, other) = None THEN cur ELSE intersect(cur, other)[2]
        /\ UNCHANGED pc
        /\ UNCHANGED fmtVars

Offset ==
    \E delta \in Usize :
        \E res \in offset(cur, delta) :
            /\ pc = "holding"
            /\ last' = CallOf("offset", <<delta>>, res)
            /\ cur' = IF res.panicked THEN cur ELSE res.val
            /\ pc' = After(res)
            /\ UNCHANGED fmtVars

Shrink ==
    \E a \in Usize, b \in Usize :
        /\ pc = "holding"
        /\ last' = CallOf("shrink", <<a, b>>, Ret(shrink(cur, a, b)))
        /\ cur' = shrink(cur, a, b)
        /\ UNCHANGED pc
        /\ UNCHANGED fmtVars

\* impl Index<Range> for [T]
Index ==
    \E slice \in Slices :
        /\ pc = "holding"
        /\ last' = CallOf("index", <<slice>>, index(slice, cur))
        /\ pc' = After(index(slice, cur))
        /\ UNCHANGED cur
        /\ UNCHANGED fmtVars

\* impl Index<&Range> for [T]
IndexRef ==
    \E slice \in Slices :
        /\ pc = "holding"
        /\ last' = CallOf("index_ref", <<slice>>, index(slice, cur))
        /\ pc' = After(index(slice, cur))
        /\ UNCHANGED cur
        /\ UNCHANGED fmtVars

\* impl From<Range> for core::ops::Range<usize>
IntoCore ==
    /\ pc = "holding"
    /\ last' = CallOf("into_core", <<>>, Ret(into_core(cur)))
    /\ UNCHANGED <<pc, cur>>
    /\ UNCHANGED fmtVars

\* impl From<Range> for (usize, usize)
IntoTuple ==
    /\ pc = "holding"
    /\ last' = CallOf("into_tuple", <<>>, Ret(into_tuple(cur)))
    /\ UNCHANGED <<pc, cur>>
    /\ UNCHANGED fmtVars

\* the caller lets the value go out of scope
Drop ==
    /\ pc = "holding"
    /\ pc' = "idle"
    /\ cur' = <<0, 0>>
    /\ last' = NoCall
    /\ UNCHANGED fmtVars

Next ==
    \/ New
    \/ FromCore
    \/ FromTuple
    \/ Start
    \/ End
    \/ Len_
    \/ IsEmpty
    \/ Contains
    \/ ClampTo
    \/ Intersect
    \/ Offset
    \/ Shrink
    \/ Index
    \/ IndexRef
    \/ IntoCore
    \/ IntoTuple
    \/ Drop

Spec == Init /\ [][Next]_vars

(* ------------------------------ FmtSlice ------------------------------- *)

\* an element of the rendered slice: the text its Display writes, and whether
\* its Display succeeds
FmtElems == [text : {"1", "2"}, ok : BOOLEAN]

FmtSlices == SeqsUpTo(FmtElems, MaxLen)

\* the sinks: one that refuses every write, up to one that takes a whole rendering
SinkCaps == 0..(2 * MaxLen + 1)

\* the sink takes k more writes
Accepts(k) == Len(fout) + k <= fcap

\* to_string() or format!("{}", FmtSlice(slice)) enters fmt
FmtBegin ==
    \E slice \in FmtSlices, cap \in SinkCaps :
        /\ fpc = "idle"
        /\ fpc' = "open"
        /\ fslice' = slice
        /\ fcap' = cap
        /\ fi' = 1
        /\ fout' = <<>>
        /\ fres' = "none"
        /\ UNCHANGED rangeVars

\* write!(f, "[")?
FmtOpen ==
    /\ fpc = "open"
    /\ IF Accepts(1)
       THEN /\ fout' = Append(fout, "[")
            /\ fpc' = "first"
            /\ UNCHANGED fres
       ELSE /\ fres' = "Err"
            /\ fpc' = "done"
            /\ UNCHANGED fout
    /\ UNCHANGED <<fslice, fcap, fi>>
    /\ UNCHANGED rangeVars

\* if let Some(val) = iter.next() { write!(f, "{val}")?; ... }
FmtFirst ==
    /\ fpc = "first"
    /\ IF fi > Len(fslice)
       THEN /\ fpc' = "close"
            /\ UNCHANGED <<fi, fout, fres>>
       ELSE IF fslice[fi].ok /\ Accepts(1)
            THEN /\ fout' = Append(fout, fslice[fi].text)
                 /\ fi' = fi + 1
                 /\ fpc' = "rest"
                 /\ UNCHANGED fres
            ELSE /\ fres' = "Err"
                 /\ fpc' = "done"
                 /\ UNCHANGED <<fi, fout>>
    /\ UNCHANGED <<fslice, fcap>>
    /\ UNCHANGED rangeVars

\* the loop with the separator written after the element
FmtRestTrailing ==
    /\ fpc = "rest"
    /\ IF fi > Len(fslice)
       THEN /\ fpc' = "close"
            /\ UNCHANGED <<fi, fout, fres>>
       ELSE IF ~(fslice[fi].ok /\ Accepts(1))
            THEN /\ fres' = "Err"
                 /\ fpc' = "done"
                 /\ UNCHANGED <<fi, fout>>
            ELSE IF Accepts(2)
                 THEN /\ fout' = fout \o <<fslice[fi].text, ", ">>
                      /\ fi' = fi + 1
                      /\ UNCHANGED <<fpc, fres>>
                 ELSE /\ fout' = Append(fout, fslice[fi].text)
                      /\ fres' = "Err"
                      /\ fpc' = "done"
                      /\ UNCHANGED fi
    /\ UNCHANGED <<fslice, fcap>>
    /\ UNCHANGED rangeVars

\* for val in iter { write!(f, ", {val}")?; }: the separator is written, then val
FmtRest ==
    /\ fpc = "rest"
    /\ IF fi > Len(fslice)
       THEN /\ fpc' = "close"
            /\ UNCHANGED <<fi, fout, fres>>
       ELSE IF ~Accepts(1)
            THEN /\ fres' = "Err"
                 /\ fpc' = "done"
                 /\ UNCHANGED <<fi, fout>>
            ELSE IF fslice[fi].ok /\ Accepts(2)
                 THEN /\ fout' = fout \o <<", ", fslice[fi].text>>
                      /\ fi' = fi + 1
                      /\ UNCHANGED <<fpc, fres>>
                 ELSE /\ fout' = Append(fout, ", ")
                      /\ fres' = "Err"
                      /\ fpc' = "done"
                      /\ UNCHANGED fi
    /\ UNCHANGED <<fslice, fcap>>
    /\ UNCHANGED rangeVars

\* write!(f, "]")
FmtClose ==
    /\ fpc = "close"
    /\ IF Accepts(1)
       THEN /\ fout' = Append(fout, "]")
            /\ fres' = "Ok"
       ELSE /\ fres' = "Err"
            /\ UNCHANGED fout
    /\ fpc' = "done"
    /\ UNCHANGED <<fslice, fcap, fi>>
    /\ UNCHANGED rangeVars

\* the caller takes the result; the formatter can be used again
FmtEnd ==
    /\ fpc = "done"
    /\ fpc' = "idle"
    /\ fslice' = <<>>
    /\ fcap' = 0
    /\ fi' = 1
    /\ fout' = <<>>
    /\ fres' = "none"
    /\ UNCHANGED rangeVars

NextFmt ==
    \/ FmtBegin
    \/ FmtOpen
    \/ FmtFirst
    \/ FmtRest
    \/ FmtClose
    \/ FmtEnd

SpecFmt == Init /\ [][NextFmt]_vars

(* ------------------------------ properties ----------------------------- *)

\* the last call was `op` and returned
Returned(op) == last.op = op /\ ~last.res.panicked

C5_IntersectResult ==
    last.op = "intersect" =>
        LET a == last.self
            b == last.args[1]
            s == IF a[1] >= b[1] THEN a[1] ELSE b[1]
            e == IF a[2] <= b[2] THEN a[2] ELSE b[2]
        IN  /\ ~last.res.panicked
            /\ s < e => last.res.val = Some(<<s, e>>)
            /\ ~(s < e) => last.res.val = None
            /\ (a[2] = b[1] \/ b[2] = a[1]) => last.res.val = None
            /\ (a[1] >= a[2] \/ b[1] >= b[2]) => last.res.val = None

\* two non-empty abutting ranges intersected to None
C5_Witness ==
    /\ Returned("intersect")
    /\ last.self[1] < last.self[2]
    /\ last.args[1][1] < last.args[1][2]
    /\ last.self[2] = last.args[1][1]
    /\ last.res.val = None

\* C6: Range::new(a, b).len() is b - a when a <= b and 0 when a > b, where
\* is_empty() is true; is_empty() is true exactly when start >= end.
C6_LenIsEmpty ==
    /\ last.op = "len" =>
        /\ ~last.res.panicked
        /\ last.self[1] <= last.self[2] => last.res.val = last.self[2] - last.self[1]
        /\ last.self[1] > last.self[2] => last.res.val = 0
    /\ last.op = "is_empty" =>
        /\ ~last.res.panicked
        /\ last.res.val = (last.self[1] >= last.self[2])
        /\ last.self[1] > last.self[2] => last.res.val = TRUE

\* len() of an inverted range returned 0
C6_Witness ==
    /\ Returned("len")
    /\ last.self[1] > last.self[2]
    /\ last.res.val = 0

\* C9: when a.intersect(b) is Some(c), c is non-empty and contains exactly the
\* indices that a and b both contain; when it is None, a and b share no index.
C9_IntersectMembership ==
    Returned("intersect") =>
        LET a == last.self
            b == last.args[1]
            o == last.res.val
        IN  IF o = None
            THEN \A i \in Usize : ~(contains(a, i) /\ contains(b, i))
            ELSE /\ o[1] = "Some"
                 /\ o[2][1] < o[2][2]
                 /\ \A i \in Usize : contains(o[2], i) <=> (contains(a, i) /\ contains(b, i))

\* an intersection that is a proper part of both ranges
C9_Witness ==
    /\ Returned("intersect")
    /\ last.res.val # None
    /\ last.res.val[2] # last.self
    /\ last.res.val[2] # last.args[1]

\* C10: r.shrink(a, b) is never inverted and its length is
\* saturating_sub(saturating_sub(r.len(), a), b), also when the saturating
\* add or sub hits the bounds of usize.
C10_ShrinkLen ==
    Returned("shrink") =>
        LET r == last.self
            l == IF r[2] >= r[1] THEN r[2] - r[1] ELSE 0
            rest == IF l - last.args[1] - last.args[2] > 0
                    THEN l - last.args[1] - last.args[2]
                    ELSE 0
            out == last.res.val
        IN  /\ out[1] <= out[2]
            /\ len(out) = rest
            /\ out[2] - out[1] = rest

\* a shrink whose start + start_shrink went over usize::MAX
C10_Witness ==
    /\ Returned("shrink")
    /\ last.self[1] < last.self[2]
    /\ last.self[1] + last.args[1] > UsizeMax
    /\ last.res.val = <<UsizeMax, UsizeMax>>

IndexOps == {"index", "index_ref"}

\* the elements of slice at the positions s .. e-1, counted from 0
Positions(slice, s, e) == [k \in 1..(e - s) |-> slice[s + k]]

\* C1: r.clamp_to(len) has start <= len and end <= len for every r, inverted
\* ones included, and indexing a sequence of length len with it never fails.
C1_ClampThenIndex ==
    /\ [](last.op = "clamp_to" =>
            /\ ~last.res.panicked
            /\ last.res.val[1] <= last.args[1]
            /\ last.res.val[2] <= last.args[1])
    /\ [][(/\ last.op = "clamp_to"
           /\ last'.op \in IndexOps
           /\ last'.self = last.res.val
           /\ Len(last'.args[1]) = last.args[1])
          => ~last'.res.panicked]_vars

OffsetThenShrink ==
    /\ Returned("offset")
    /\ last.self[1] < last.self[2]
    /\ last.args[1] <= last.self[2] - last.self[1]
    /\ last.self[2] + last.args[1] <= UsizeMax
    /\ last'.op = "shrink"
    /\ last'.self = last.res.val
    /\ last'.args = <<last.args[1], 0>>

\* C4 as stated: for non-degenerate r and d <= r.len() without overflow,
\* r.offset(d).shrink(d, 0) == Range::new(r.start() + d, r.end()).
C4_OffsetShrinkAsStated ==
    [][OffsetThenShrink =>
        last'.res.val = <<last.self[1] + last.args[1], last.self[2]>>]_vars

\* C4, amended: for non-degenerate r and d <= r.len() without overflow,
\* r.offset(d).shrink(d, 0) == Range::new(r.start() + 2*d, r.end() + d).
C4_OffsetShrink ==
    [][OffsetThenShrink =>
        /\ ~last'.res.panicked
        /\ last'.res.val = <<last.self[1] + 2 * last.args[1], last.self[2] + last.args[1]>>]_vars

\* a non-degenerate range was offset by 0 < d <= len without overflow, and the
\* caller can go on with shrink(d, 0) of what offset returned
C4_Witness ==
    /\ pc = "holding"
    /\ Returned("offset")
    /\ last.self[1] < last.self[2]
    /\ last.args[1] > 0
    /\ last.args[1] <= last.self[2] - last.self[1]
    /\ last.self[2] + last.args[1] <= UsizeMax
    /\ cur = last.res.val
    /\ shrink(cur, last.args[1], 0) # <<last.self[1] + last.args[1], last.self[2]>>

\* C7: clamp_to(n) is (min(start, n), min(end, n)) and is idempotent:
\* r.clamp_to(n).clamp_to(n) == r.clamp_to(n) for every r, inverted or not.
C7_ClampIdempotent ==
    /\ [](last.op = "clamp_to" =>
            /\ ~last.res.panicked
            /\ last.res.val[1] = (IF last.self[1] <= last.args[1] THEN last.self[1] ELSE last.args[1])
            /\ last.res.val[2] = (IF last.self[2] <= last.args[1] THEN last.self[2] ELSE last.args[1]))
    /\ [][(/\ last.op = "clamp_to"
           /\ last'.op = "clamp_to"
           /\ last'.self = last.res.val
           /\ last'.args = last.args)
          => last'.res.val = last.res.val]_vars

\* an inverted range beyond n was clamped to n, and the caller can clamp what
\* it got to n again
C7_Witness ==
    /\ pc = "holding"
    /\ Returned("clamp_to")
    /\ last.self[1] > last.self[2]
    /\ last.self[1] > last.args[1]
    /\ last.res.val # last.self
    /\ cur = last.res.val
    /\ clamp_to(cur, last.args[1]) = cur

RECURSIVE Joined(_)
\* the display texts of the elements of s with ", " between them
Joined(s) ==
    IF Len(s) = 0 THEN <<>>
    ELSE IF Len(s) = 1 THEN <<s[1].text>>
    ELSE <<s[1].text, ", ">> \o Joined(Tail(s))

Rendering(s) == <<"[">> \o Joined(s) \o <<"]">>

\* the first element of s whose Display fails, 0 when there is none
FirstFailing(s) ==
    IF \E k \in 1..Len(s) : ~s[k].ok
    THEN CHOOSE k \in 1..Len(s) : ~s[k].ok /\ \A j \in 1..(k - 1) : s[j].ok
    ELSE 0

\* C8: into a sink that takes every write, fmt writes "[", the elements'
\* texts in order joined by ", ", and "]" ("[]" for the empty sequence, no
\* separator for one element); when an element's rendering fails, fmt returns
\* the failure and writes no later element.
C8_Render ==
    /\ fpc # "idle" =>
        /\ Len(fout) <= Len(Rendering(fslice))
        /\ fout = SubSeq(Rendering(fslice), 1, Len(fout))
    /\ (fpc = "done" /\ fcap >= Len(Rendering(fslice))) =>
        LET k == FirstFailing(fslice)
        IN  IF k = 0
            THEN /\ fres = "Ok"
                 /\ fout = Rendering(fslice)
                 /\ Len(fslice) = 0 => fout = <<"[", "]">>
                 /\ Len(fslice) = 1 => fout = <<"[", fslice[1].text, "]">>
            ELSE /\ fres = "Err"
                 /\ fout = SubSeq(Rendering(fslice), 1, 2 * k - 1)

\* a slice of three elements was rendered to the end
C8_Witness ==
    /\ fpc = "done"
    /\ fres = "Ok"
    /\ Len(fslice) = 3
    /\ fout = <<"[", fslice[1].text, ", ", fslice[2].text, ", ", fslice[3].text, "]">>

====
